---- MODULE Spec2Model ----
(***************************************************************************)
(* Model of the odds-harvester normalisation-and-merge engine:             *)
(*   scripts/merge_odds.py  parse_match, load_new_day_data,                *)
(*                          get_day_offset, main                           *)
(*   scripts/fetch_odds.py  parse_date, transform_to_watchyscore_format    *)
(*                                                                         *)
(* Strings are sequences of characters.  A calendar date "YYYY-MM-DD" is   *)
(* one ten-character token ("d2" is the date of day number 2), so that     *)
(* date arithmetic is integer arithmetic on day numbers.  Python values    *)
(* are tagged records [t, v]: t is the Python type, v the characters.      *)
(* meta.updated_at and day_name are left out (wall-clock decoration).      *)
(***************************************************************************)
EXTENDS Integers, Sequences, FiniteSets, TLC

\* ------------------------------------------------------------------ bounds
MaxBatch == 2      \* most raw records in one scraped day file
MaxToday == 8      \* last calendar day the clock reaches
MaxEntries == 2    \* most entries of a raw record's markets list
\* ------------------------------------------------------- program constants
WindowDays == 7    \* range(7): offsets 0..6

VARIABLES feed, today, existing, dayFiles, today_str, new_matches, output, pc,
          raw, parsed, loaded, row, fetched

vars == <<feed, today, existing, dayFiles, today_str, new_matches, output, pc,
          raw, parsed, loaded, row, fetched>>

\* ------------------------------------------------------------ Python values
Str(s)  == [t |-> "str", v |-> s]
Num(s)  == [t |-> "num", v |-> s]
Dict(s) == [t |-> "dict", v |-> s]
NoneVal == [t |-> "none", v |-> <<>>]

\* bool(x)
Truthy(x) ==
  /\ x.t # "none"
  /\ ~(x.t = "str" /\ x.v = <<>>)
  /\ ~(x.t = "num" /\ x.v = <<"0">>)
  /\ ~(x.t = "dict" /\ x.v = <<>>)

\* A mapping is a function from the keys it holds.  k in d
Has(d, k) == k \in DOMAIN d
\* d.get(k): a missing key reads as None
Get(d, k) == IF Has(d, k) THEN d[k] ELSE NoneVal
\* d.get(k, default)
GetOr(d, k, default) == IF Has(d, k) THEN d[k] ELSE default
\* a or b
Or(a, b) == IF Truthy(a) THEN a ELSE b

\* str(x) as interpolated by an f-string
Format(x) ==
  CASE x.t = "str"  -> x.v
    [] x.t = "num"  -> x.v
    [] x.t = "dict" -> <<"{">> \o x.v \o <<"}">>
    [] OTHER        -> <<"None">>

LowerChar(c) == CASE c = "A" -> "a" [] c = "T" -> "t" [] c = "X" -> "x" [] OTHER -> c
\* str.lower()
Lower(s) == [i \in 1..Len(s) |-> LowerChar(s[i])]

\* calendar dates: the token and the day number it denotes
DateTokens == {"d2", "d3", "d8"}
DateValue(tok) == CASE tok = "d2" -> 2 [] tok = "d3" -> 3 [] tok = "d8" -> 8

Min(a, b) == IF a < b THEN a ELSE b

\* ------------------------------------------------- merge_odds.parse_match
\* An odds body is a mapping with some of the keys home, draw, away; an odds
\* mapping has the key h2h or not (the other markets are not modelled).
\* The value of 'odds' is [t, d]: t = "dict" and d the odds mapping, or another
\* type.  The value of 'markets' is [t, d, entries]: a mapping d (t = "dict"),
\* a list of entries (t = "list") or another type.  An entry is
\* [t, name, type, odds]; t # "dict" is an element that is no mapping.
EmptyDict == <<>>
\* the body {home: <src>h, draw: <src>d, away: <src>a} of one source
BodyOf(src) == [home |-> Num(<<src, "h">>), draw |-> Num(<<src, "d">>),
                away |-> Num(<<src, "a">>)]
\* bool(odds.get('h2h'))
H2HTruthy(odds) == Has(odds, "h2h") /\ odds.h2h # EmptyDict

IsH2HEntry(e) ==
  Lower(e.name) = <<"1", "x", "2">> \/ Lower(e.type) = <<"h", "2", "h">>

\* lines 44-53: the loop over a markets list; every 1x2/h2h entry overwrites
\* odds['h2h'].  Result: [raised, odds]; m.get on a non-mapping raises.
RECURSIVE ScanMarkets(_, _, _)
ScanMarkets(entries, i, odds) ==
  IF i > Len(entries) THEN [raised |-> FALSE, odds |-> odds]
  ELSE IF entries[i].t # "dict" THEN [raised |-> TRUE, odds |-> odds]
  ELSE IF IsH2HEntry(entries[i])
       THEN ScanMarkets(entries, i + 1, [h2h |-> entries[i].odds])
       ELSE ScanMarkets(entries, i + 1, odds)

\* lines 34-53: odds after the 'odds' and 'markets' keys are read
MarketOdds(match) ==
  LET odds == IF Has(match, "odds") /\ match.odds.t = "dict"
              THEN match.odds.d ELSE EmptyDict
  IN  IF ~Has(match, "markets") THEN [raised |-> FALSE, odds |-> odds]
      ELSE CASE match.markets.t = "dict" -> [raised |-> FALSE, odds |-> match.markets.d]
             [] match.markets.t = "list" -> ScanMarkets(match.markets.entries, 1, odds)
             [] OTHER                    -> [raised |-> FALSE, odds |-> odds]

\* lines 56-68: the direct odds fields, read only when odds['h2h'] is falsy
DirectOdds(match, odds) ==
  IF H2HTruthy(odds) THEN odds
  ELSE IF Has(match, "home_odds") /\ Has(match, "draw_odds") /\ Has(match, "away_odds")
       THEN [h2h |-> [home |-> match.home_odds, draw |-> match.draw_odds,
                      away |-> match.away_odds]]
  ELSE IF Has(match, "1") /\ Has(match, "X") /\ Has(match, "2")
       THEN [h2h |-> [home |-> match["1"], draw |-> match["X"], away |-> match["2"]]]
  ELSE odds

\* lines 27-28
HomeName(match) ==
  Or(Or(Get(match, "home_team"), Get(match, "home")), GetOr(match, "homeTeam", Str(<<>>)))
AwayName(match) ==
  Or(Or(Get(match, "away_team"), Get(match, "away")), GetOr(match, "awayTeam", Str(<<>>)))
\* line 70
CommenceOf(match) ==
  Or(Or(Or(Get(match, "commence_time"), Get(match, "date")), Get(match, "datetime")),
     GetOr(match, "start_time", Str(<<>>)))
\* line 71
LeagueOf(match) ==
  Or(Or(Get(match, "league"), Get(match, "competition")),
     GetOr(match, "tournament", Str(<<"Unknown">>)))

\* isinstance(match, dict): a value that is no mapping is a tagged value
IsDict(match) == ~Has(match, "t")

\* parse_match: <<Match>>, <<>> for None (discard), or "raise"
ParseMatch(match) ==
  IF ~IsDict(match) THEN [t |-> "none", m |-> <<>>]
  ELSE IF ~Truthy(HomeName(match)) \/ ~Truthy(AwayName(match))
       THEN [t |-> "none", m |-> <<>>]
  ELSE LET mk == MarketOdds(match)
       IN  IF mk.raised THEN [t |-> "raise", m |-> <<>>]
           ELSE [t |-> "match",
                 m |-> <<[home_team |-> HomeName(match),
                          away_team |-> AwayName(match),
                          commence_time |-> CommenceOf(match),
                          league |-> LeagueOf(match),
                          markets |-> DirectOdds(match, mk.odds)]>>]

\* ------------------------------------------- merge_odds.load_new_day_data
\* lines 124-135: one day file; an exception drops the whole file
RECURSIVE ParseFile(_, _, _)
ParseFile(recs, i, acc) ==
  IF i > Len(recs) THEN acc
  ELSE LET p == ParseMatch(recs[i])
       IN  CASE p.t = "raise" -> <<>>
             [] p.t = "match" -> ParseFile(recs, i + 1, acc \o p.m)
             [] OTHER         -> ParseFile(recs, i + 1, acc)

NoFile == [present |-> FALSE, matches |-> <<>>]

\* lines 105-140: files is data/day0.json .. data/day6.json, in index order
RECURSIVE LoadNewDayData(_, _)
LoadNewDayData(files, i) ==
  IF i >= WindowDays THEN <<>>
  ELSE (IF files[i].present THEN ParseFile(files[i].matches, 1, <<>>) ELSE <<>>)
       \o LoadNewDayData(files, i + 1)

\* ---------------------------------------------- merge_odds.get_day_offset
HasT(s) == \E i \in 1..Len(s) : s[i] = "T"
FirstT(s) == CHOOSE i \in 1..Len(s) : s[i] = "T" /\ \A j \in 1..(i - 1) : s[j] # "T"
\* commence_time.split('T')[0]
SplitT(s) == SubSeq(s, 1, FirstT(s) - 1)
\* commence_time[:10]; a date token stands for ten characters
Take10(s) ==
  IF s # <<>> /\ s[1] \in DateTokens THEN <<s[1]>> ELSE SubSeq(s, 1, Min(10, Len(s)))
\* strptime(match_date, '%Y-%m-%d') succeeds
ParsesAsDate(s) == Len(s) = 1 /\ s[1] \in DateTokens

\* variant: a match without a usable date counts as today's
GetDayOffsetDefaultToday(ct, td) ==
  IF ~Truthy(ct) THEN 0
  ELSE IF ct.t # "str" THEN 0
  ELSE LET match_date == IF HasT(ct.v) THEN SplitT(ct.v) ELSE Take10(ct.v)
       IN  IF ParsesAsDate(match_date) THEN DateValue(match_date[1]) - td ELSE 0

GetDayOffset(ct, td) ==
  IF ~Truthy(ct) THEN -1
  ELSE IF ct.t # "str" THEN -1
  ELSE LET match_date == IF HasT(ct.v) THEN SplitT(ct.v) ELSE Take10(ct.v)
       IN  IF ParsesAsDate(match_date) THEN DateValue(match_date[1]) - td ELSE -1

InWindow(day) == 0 <= day /\ day < WindowDays

\* --------------------------------------------------------- merge_odds.main
\* variant: the key is not lower-cased
DedupKeyCaseSensitive(m) ==
  Format(m.home_team) \o <<"|">> \o Format(m.away_team) \o <<"|">>
    \o Format(m.commence_time)

\* lines 207, 230: f"{home_team}|{away_team}|{commence_time}".lower()
DedupKey(m) ==
  Lower(Format(m.home_team) \o <<"|">> \o Format(m.away_team) \o <<"|">>
        \o Format(m.commence_time))

\* variant: an offset below 0 is clamped to today
NewDaysClamped(batch, td) ==
  {d \in 0..(WindowDays - 1) :
     \E i \in 1..Len(batch) :
       LET day == GetDayOffset(batch[i].commence_time, td)
       IN  (IF day < 0 THEN 0 ELSE day) = d}

\* lines 191-195
NewDays(batch, td) ==
  {d \in 0..(WindowDays - 1) :
     \E i \in 1..Len(batch) : GetDayOffset(batch[i].commence_time, td) = d}

EmptyByDay == [i \in 0..(WindowDays - 1) |-> <<>>]

\* lines 204-210: acc is [by_day, seen]
RECURSIVE AddNewMatches(_, _, _, _)
AddNewMatches(batch, i, acc, td) ==
  IF i > Len(batch) THEN acc
  ELSE LET match == batch[i]
           day == GetDayOffset(match.commence_time, td)
           key == DedupKey(match)
       IN  IF InWindow(day) /\ key \notin acc.seen
           THEN AddNewMatches(batch, i + 1,
                  [by_day |-> [acc.by_day EXCEPT ![day] = Append(@, match)],
                   seen |-> acc.seen \cup {key}], td)
           ELSE AddNewMatches(batch, i + 1, acc, td)

\* lines 215-218: the (old_day, match) pairs of existing['by_day'] in the
\* order .items() yields them (keys "0", "1", ... as they were written)
RECURSIVE ExistingMatches(_, _)
ExistingMatches(by_day, k) ==
  IF k >= WindowDays THEN <<>>
  ELSE (IF k \in DOMAIN by_day
        THEN [j \in 1..Len(by_day[k].matches) |->
                [old_day |-> k, match |-> by_day[k].matches[j]]]
        ELSE <<>>)
       \o ExistingMatches(by_day, k + 1)

\* variant: the stored matches of a refreshed day are kept next to the new ones
KeepExistingRefreshed(old_day, match, acc, new_days, td) ==
  LET current_day == GetDayOffset(match.commence_time, td)
      key == DedupKey(match)
  IN  IF current_day < 0 \/ current_day >= WindowDays THEN acc
      ELSE IF key \notin acc.seen
           THEN [by_day |-> [acc.by_day EXCEPT ![current_day] = Append(@, match)],
                 seen |-> acc.seen \cup {key}]
           ELSE acc

\* variant: the bucket a match was stored under is trusted
KeepExistingStoredDay(old_day, match, acc, new_days, td) ==
  LET key == DedupKey(match)
  IN  IF old_day \in new_days THEN acc
      ELSE IF key \notin acc.seen
           THEN [by_day |-> [acc.by_day EXCEPT ![old_day] = Append(@, match)],
                 seen |-> acc.seen \cup {key}]
           ELSE acc

\* lines 219-233: one stored match; old_day, the bucket it was stored under,
\* is not read
KeepExisting(old_day, match, acc, new_days, td) ==
  LET current_day == GetDayOffset(match.commence_time, td)
      key == DedupKey(match)
  IN  IF current_day < 0 \/ current_day >= WindowDays THEN acc
      ELSE IF current_day \in new_days THEN acc
      ELSE IF key \notin acc.seen
           THEN [by_day |-> [acc.by_day EXCEPT ![current_day] = Append(@, match)],
                 seen |-> acc.seen \cup {key}]
           ELSE acc

RECURSIVE AddExistingMatches(_, _, _, _, _)
AddExistingMatches(old, i, acc, new_days, td) ==
  IF i > Len(old) THEN acc
  ELSE AddExistingMatches(old, i + 1,
         KeepExisting(old[i].old_day, old[i].match, acc, new_days, td), new_days, td)

\* lines 251-263: all_matches, the buckets 0..6 one after the other
RECURSIVE AllMatches(_, _)
AllMatches(by_day, k) ==
  IF k >= WindowDays THEN <<>> ELSE by_day[k] \o AllMatches(by_day, k + 1)

\* string comparison of two commence_time values (character codes: digits
\* sort before upper case, upper case before lower case)
CharRank(c) ==
  CASE c \in DateTokens -> DateValue(c) [] c = "T" -> 84 [] c = "t" -> 116 [] OTHER -> 120

RECURSIVE StrLess(_, _)
StrLess(a, b) ==
  IF b = <<>> THEN FALSE
  ELSE IF a = <<>> THEN TRUE
  ELSE IF CharRank(a[1]) # CharRank(b[1]) THEN CharRank(a[1]) < CharRank(b[1])
  ELSE StrLess(Tail(a), Tail(b))

\* line 266: list.sort(key=commence_time) is stable
RECURSIVE InsertByCommence(_, _)
InsertByCommence(sorted, m) ==
  IF sorted = <<>> THEN <<m>>
  ELSE IF StrLess(m.commence_time.v, sorted[1].commence_time.v)
       THEN <<m>> \o sorted
       ELSE <<sorted[1]>> \o InsertByCommence(Tail(sorted), m)

RECURSIVE SortByCommence(_, _, _)
SortByCommence(ms, i, acc) ==
  IF i > Len(ms) THEN acc
  ELSE SortByCommence(ms, i + 1, InsertByCommence(acc, ms[i]))

\* sorted(list(new_days))
RECURSIVE SortedDays(_, _)
SortedDays(days, k) ==
  IF k >= WindowDays THEN <<>>
  ELSE (IF k \in days THEN <<k>> ELSE <<>>) \o SortedDays(days, k + 1)

\* lines 176-185
NoDataOutput ==
  [meta |-> [source |-> "oddsharvester", total_matches |-> 0,
             error |-> "No data available"],
   by_day |-> <<>>,
   matches |-> <<>>]

\* lines 236-267
BuildOutput(by_day, new_days, td) ==
  LET all_matches == AllMatches(by_day, 0)
  IN  [meta |-> [source |-> "oddsharvester",
                 total_matches |-> Len(all_matches),
                 coverage_days |-> WindowDays,
                 days_with_data |-> Cardinality({i \in 0..(WindowDays - 1) : by_day[i] # <<>>}),
                 last_refreshed_days |-> SortedDays(new_days, 0)],
       by_day |-> [i \in 0..(WindowDays - 1) |->
                     [date |-> td + i,
                      match_count |-> Len(by_day[i]),
                      matches |-> by_day[i]]],
       matches |-> SortByCommence(all_matches, 1, <<>>)]

\* main, lines 174-267: prev is <<>> (no existing_odds.json) or <<Window>>
Merge(batch, prev, td) ==
  IF batch = <<>> /\ prev = <<>> THEN NoDataOutput
  ELSE LET new_days == NewDays(batch, td)
           fresh == AddNewMatches(batch, 1, [by_day |-> EmptyByDay, seen |-> {}], td)
           old == IF prev = <<>> THEN <<>> ELSE ExistingMatches(prev[1].by_day, 0)
           merged == AddExistingMatches(old, 1, fresh, new_days, td)
       IN  BuildOutput(merged.by_day, new_days, td)

\* ---------------------------------------------------------- fetch_odds.py
\* A row of fixtures.csv is a mapping from the columns it has to cells.  A
\* cell is NaN, a float or a string; floats are thousandths (1804 is 1.804).
\* A string cell holds the text of a float (numeric) or other text.
NaN == [t |-> "nan", n |-> 0, numeric |-> FALSE]
Float(n) == [t |-> "num", n |-> n, numeric |-> TRUE]
Text(n) == [t |-> "str", n |-> n, numeric |-> TRUE]
Junk == [t |-> "str", n |-> 0, numeric |-> FALSE]

\* pd.notna(row.get(col)): a column the row lacks reads as None
NotNa(r, col) == Has(r, col) /\ r[col].t # "nan"
\* float(cell) raises ValueError on text that is no number
FloatRaises(cell) == cell.t = "str" /\ ~cell.numeric
\* round(x, 2), x in thousandths
Round2(x) == ((x + 5) \div 10) * 10

\* A date cell: the text has len characters and a year of yearDigits digits
\* (0: no date at all) and names day number `day`.
DateText(len, yearDigits, day) ==
  [t |-> "str", len |-> len, yearDigits |-> yearDigits, day |-> day]
DateNaN == [t |-> "nan", len |-> 3, yearDigits |-> 0, day |-> 0]
\* A time cell: "HH:MM" text (valid) or other text, or NaN
TimeText(valid) == [t |-> "str", valid |-> valid]
TimeNaN == [t |-> "nan", valid |-> FALSE]

\* parse_date, lines 44-60: <<commence_time>> or <<>> for None
ParseDate(date, time) ==
  LET twoDigit == date.len <= 8
      dateOk == date.t = "str" /\ (IF twoDigit THEN date.yearDigits = 2
                                   ELSE date.yearDigits = 4)
      withTime == time.t = "str"
  IN  IF withTime
      THEN (IF dateOk /\ time.valid
            THEN <<[day |-> date.day, clock |-> "HH:MM:00Z"]>> ELSE <<>>)
      ELSE (IF dateOk THEN <<[day |-> date.day, clock |-> "00:00:00Z"]>> ELSE <<>>)

\* lines 113-115: the Time cell as parse_date sees it: a missing column reads
\* as '', NaN as None; both mean no time
TimeArg(r) ==
  IF Has(r, "Time") /\ r.Time.t = "str" THEN r.Time ELSE TimeNaN

\* lines 79-102, 121-122
LeagueMap(div) == CASE div = "E0" -> "ENG Premier League"
                    [] div = "SP1" -> "ESP La Liga"
                    [] OTHER -> div

\* One candidate (home, draw, away columns), lines 145-148 / 152-155 /
\* 158-161: [taken, raised, home, draw, away]; an absent price is <<>>
ReadTriple(r, h, d, a) ==
  IF ~NotNa(r, h)
  THEN [taken |-> FALSE, raised |-> FALSE, home |-> <<>>, draw |-> <<>>, away |-> <<>>]
  ELSE [taken |-> TRUE,
        raised |-> \/ FloatRaises(r[h])
                   \/ (NotNa(r, d) /\ FloatRaises(r[d]))
                   \/ (NotNa(r, a) /\ FloatRaises(r[a])),
        home |-> <<r[h].n>>,
        draw |-> IF NotNa(r, d) THEN <<r[d].n>> ELSE <<>>,
        away |-> IF NotNa(r, a) THEN <<r[a].n>> ELSE <<>>]

\* variant: Bet365 is preferred to Pinnacle
H2HOddsBet365First(r) ==
  LET ps == ReadTriple(r, "PSH", "PSD", "PSA")
      ph == ReadTriple(r, "PH", "PD", "PA")
      b365 == ReadTriple(r, "B365H", "B365D", "B365A")
      avg == ReadTriple(r, "AvgH", "AvgD", "AvgA")
  IN  IF b365.taken THEN b365
      ELSE IF ps.taken THEN ps
      ELSE IF ph.taken THEN ph
      ELSE avg

\* lines 139-161: Pinnacle (PSH.. then PH..), else Bet365, else the average;
\* home_odds is None decides whether the next candidate is read
H2HOdds(r) ==
  LET ps == ReadTriple(r, "PSH", "PSD", "PSA")
      ph == ReadTriple(r, "PH", "PD", "PA")
      b365 == ReadTriple(r, "B365H", "B365D", "B365A")
      avg == ReadTriple(r, "AvgH", "AvgD", "AvgA")
  IN  IF ps.taken THEN ps
      ELSE IF ph.taken THEN ph
      ELSE IF b365.taken THEN b365
      ELSE avg

\* a float that is not None and not 0.0
PriceTruthy(x) == x # <<>> /\ x[1] # 0

\* lines 163-168
H2HMarket(odds) ==
  IF PriceTruthy(odds.home) /\ PriceTruthy(odds.draw) /\ PriceTruthy(odds.away)
  THEN [home |-> Round2(odds.home[1]), draw |-> Round2(odds.draw[1]),
        away |-> Round2(odds.away[1])]
  ELSE EmptyDict

\* One over/under candidate, lines 176-178 / 182-184 / 187-189
ReadPair(r, o, u) ==
  IF ~NotNa(r, o)
  THEN [taken |-> FALSE, raised |-> FALSE, over |-> <<>>, under |-> <<>>]
  ELSE [taken |-> TRUE,
        raised |-> FloatRaises(r[o]) \/ (NotNa(r, u) /\ FloatRaises(r[u])),
        over |-> <<r[o].n>>,
        under |-> IF NotNa(r, u) THEN <<r[u].n>> ELSE <<>>]

\* lines 171-189
TotalsOdds(r) ==
  LET p == ReadPair(r, "P>2.5", "P<2.5")
      b365 == ReadPair(r, "B365>2.5", "B365<2.5")
      avg == ReadPair(r, "Avg>2.5", "Avg<2.5")
  IN  IF p.taken THEN p ELSE IF b365.taken THEN b365 ELSE avg

\* lines 191-196
TotalsMarket(odds) ==
  IF PriceTruthy(odds.over) /\ PriceTruthy(odds.under)
  THEN [over |-> Round2(odds.over[1]), under |-> Round2(odds.under[1]), line |-> 2500]
  ELSE EmptyDict

\* the body of the loop of transform_to_watchyscore_format, lines 107-204,
\* for one row: the matches it appends, and whether it raised (the except
\* clause prints a warning and goes on to the next row)
TransformRow(r) ==
  IF ~NotNa(r, "HomeTeam") \/ ~NotNa(r, "AwayTeam")
  THEN [raised |-> FALSE, matches |-> <<>>]
  ELSE LET commence_time == ParseDate(IF Has(r, "Date") THEN r.Date ELSE DateText(0, 0, 0),
                                      TimeArg(r))
           h2h == H2HOdds(r)
           totals == TotalsOdds(r)
       IN  IF commence_time = <<>> THEN [raised |-> FALSE, matches |-> <<>>]
           ELSE IF h2h.raised \/ totals.raised THEN [raised |-> TRUE, matches |-> <<>>]
           ELSE IF H2HMarket(h2h) = EmptyDict THEN [raised |-> FALSE, matches |-> <<>>]
           ELSE [raised |-> FALSE,
                 matches |-> <<[home_team |-> r.HomeTeam,
                                away_team |-> r.AwayTeam,
                                commence_time |-> commence_time[1],
                                league |-> LeagueMap(GetOr(r, "Div", "")),
                                league_code |-> GetOr(r, "Div", ""),
                                markets |-> [h2h |-> H2HMarket(h2h),
                                             totals |-> TotalsMarket(totals)]]>>]

\* ------------------------------------------------------------ raw records
RawMatch(h, a, c) == [home_team |-> Str(h), away_team |-> Str(a), commence_time |-> Str(c)]

\* what the scrapers deliver: fixtures that differ in the date (none, day 2,
\* day 8) and in the case of a team name ...
FeedDates ==
  {RawMatch(h, <<"b">>, c) : h \in {<<"a">>, <<"A">>},
                             c \in {<<>>, <<"d2", "T">>, <<"d8", "T">>}}
\* ... and fixtures of one day whose names hold the key separator
FeedNames ==
  {RawMatch(h, a, <<"d2", "T">>) : h \in {<<"a">>, <<"a", "|", "a">>},
                                   a \in {<<"a">>, <<"a", "|", "a">>}}

SeqsUpTo(S, n) == UNION {[1..k -> S] : k \in 0..n}

Feeds == {FeedDates, FeedNames}

NoFiles == [i \in 0..(WindowDays - 1) |-> NoFile]

\* ------------------------------------------------------------ the pipeline
\* the normalizer's variables while the merge pipeline is looked at
NormalizerIdle ==
  /\ raw = <<>>
  /\ parsed = <<>>
  /\ loaded = <<>>
  /\ row = <<>>
  /\ fetched = <<>>

Init ==
  /\ feed \in Feeds
  /\ today = 0
  /\ existing = <<>>
  /\ dayFiles = NoFiles
  /\ today_str = 0
  /\ new_matches = <<>>
  /\ output = <<>>
  /\ pc = "idle"
  /\ NormalizerIdle

\* the calendar moves on between two runs
Tick ==
  /\ pc = "idle"
  /\ today < MaxToday
  /\ today' = today + 1
  /\ UNCHANGED <<feed, existing, dayFiles, today_str, new_matches, output, pc,
                 raw, parsed, loaded, row, fetched>>

\* what the scrape jobs of one run leave in data/: no file, or the file
\* data/day<i>.json of the day that was refreshed (possibly without records)
ScrapedDays == {0, 2}
DayFileChoices ==
  {NoFiles} \cup
  {[NoFiles EXCEPT ![i] = [present |-> TRUE, matches |-> recs]] :
     i \in ScrapedDays, recs \in SeqsUpTo(feed, MaxBatch)}

\* merge_odds.main, one run on the files found in data/
Main ==
  /\ pc = "idle"
  /\ \E files \in DayFileChoices :
       /\ dayFiles' = files
       /\ new_matches' = LoadNewDayData(files, 0)
       /\ output' = <<Merge(LoadNewDayData(files, 0), existing, today)>>
  /\ today_str' = today
  /\ pc' = "merged"
  /\ UNCHANGED <<feed, today, existing, raw, parsed, loaded, row, fetched>>

\* data/odds.json is uploaded; the next run downloads it as existing_odds.json
Publish ==
  /\ pc = "merged"
  /\ existing' = output
  /\ dayFiles' = NoFiles
  /\ today_str' = 0
  /\ new_matches' = <<>>
  /\ output' = <<>>
  /\ pc' = "idle"
  /\ UNCHANGED <<feed, today, raw, parsed, loaded, row, fetched>>

Next == Tick \/ Main \/ Publish

Spec == Init /\ [][Next]_vars
\* ========================================================= the normalizer
\* Raw records for parse_match.  The team-name keys vary ...
Keyed(k, vals) == {<<>>} \cup {k :> v : v \in vals}
RecordName == Dict(<<"name">>)
NameRecords ==
  {ht @@ h @@ hT @@ at @@ a @@ aT @@ ("commence_time" :> Str(<<"d2", "T">>)) @@ dr :
     ht \in Keyed("home_team", {Str(<<>>), Str(<<"Arsenal">>), NoneVal}),
     h  \in Keyed("home", {RecordName, Str(<<"Home">>)}),
     hT \in Keyed("homeTeam", {Str(<<"HomeT">>)}),
     at \in Keyed("away_team", {Str(<<"Chelsea">>)}),
     a  \in Keyed("away", {RecordName}),
     aT \in Keyed("awayTeam", {Str(<<>>)}),
     dr \in {[home_odds |-> Num(<<"direct", "h">>), draw_odds |-> Num(<<"direct", "d">>),
              away_odds |-> Num(<<"direct", "a">>)]}}

\* ... or the keys that hold odds do
Entry(name, type, odds) == [t |-> "dict", name |-> name, type |-> type, odds |-> odds]
EntryKinds ==
  {Entry(<<"1", "X", "2">>, <<>>, BodyOf("entry1x2")),
   Entry(<<>>, <<"H", "2", "H">>, BodyOf("entryh2h")),
   Entry(<<"1", "x", "2">>, <<>>, EmptyDict),
   Entry(<<"o", "v", "e", "r">>, <<>>, BodyOf("over")),
   [t |-> "str", name |-> <<>>, type |-> <<>>, odds |-> EmptyDict]}
OddsValues ==
  {[t |-> "dict", d |-> [h2h |-> BodyOf("odds")]],
   [t |-> "dict", d |-> EmptyDict],
   [t |-> "str", d |-> EmptyDict]}
MarketsValues ==
  {[t |-> "dict", d |-> [h2h |-> BodyOf("markets")], entries |-> <<>>],
   [t |-> "dict", d |-> EmptyDict, entries |-> <<>>],
   [t |-> "str", d |-> EmptyDict, entries |-> <<>>]}
  \cup {[t |-> "list", d |-> EmptyDict, entries |-> es] : es \in SeqsUpTo(EntryKinds, MaxEntries)}
DirectValues ==
  {<<>>,
   [home_odds |-> Num(<<"direct", "h">>), draw_odds |-> Num(<<"direct", "d">>),
    away_odds |-> Num(<<"direct", "a">>)],
   [home_odds |-> Num(<<"direct", "h">>)]}
NumeralValues ==
  {<<>>, ("1" :> Num(<<"1X2", "h">>)) @@ ("X" :> Num(<<"1X2", "d">>))
         @@ ("2" :> Num(<<"1X2", "a">>))}
OddsRecords ==
  {RawMatch(<<"Arsenal">>, <<"Chelsea">>, <<"d2", "T">>) @@ o @@ m @@ d @@ n :
     o \in Keyed("odds", OddsValues), m \in Keyed("markets", MarketsValues),
     d \in DirectValues, n \in NumeralValues}

\* a record that is no mapping
NotAMapping == Str(<<"Arsenal">>)
RawRecords == NameRecords \cup OddsRecords \cup {NotAMapping}

\* the record that shares a day file with the one under inspection
Companion == RawMatch(<<"Lyon">>, <<"Nice">>, <<"d3", "T">>)

\* Rows for transform_to_watchyscore_format.  The price of a column:
Price(col) ==
  CASE col = "PSH" -> 1804 [] col = "PSD" -> 3402 [] col = "PSA" -> 4503
    [] col = "PH" -> 1814 [] col = "PD" -> 3412 [] col = "PA" -> 4513
    [] col = "B365H" -> 1903 [] col = "B365D" -> 3304 [] col = "B365A" -> 4101
    [] col = "AvgH" -> 2004 [] col = "AvgD" -> 3204 [] col = "AvgA" -> 3801
    [] col = "P>2.5" -> 1952 [] col = "P<2.5" -> 1871
    [] col = "B365>2.5" -> 2003 [] col = "B365<2.5" -> 1803
Good(col) == col :> Float(Price(col))
Missing(col) == col :> NaN
Bad(col) == col :> Junk

GoodIdentity ==
  [HomeTeam |-> Str(<<"Arsenal">>), AwayTeam |-> Str(<<"Chelsea">>),
   Date |-> DateText(8, 2, 16), Div |-> "E0"]
GoodPrices == Good("B365H") @@ Good("B365D") @@ Good("B365A")

\* the identity columns vary ...
IdentityRows ==
  {[HomeTeam |-> h, AwayTeam |-> a, Date |-> d, Div |-> v] @@ t @@ GoodPrices :
     h \in {NaN, Str(<<"Arsenal">>)}, a \in {NaN, Str(<<"Chelsea">>)},
     d \in {DateText(8, 2, 16), DateText(10, 4, 16), DateText(8, 4, 1), DateNaN},
     v \in {"E0", "ZZ"},
     t \in Keyed("Time", {TimeText(TRUE), TimeText(FALSE), TimeNaN})}

\* ... or the price columns do
PriceRows ==
  {GoodIdentity @@ psh @@ psd @@ psa @@ ph @@ bh @@ Good("B365D") @@ ba @@ avg
     @@ po @@ Good("P<2.5") @@ bo :
     psh \in {Missing("PSH"), Good("PSH"), Bad("PSH"), "PSH" :> Float(0),
              "PSH" :> Text(Price("PSH"))},
     psd \in {Missing("PSD"), Good("PSD")},
     psa \in {Missing("PSA"), Good("PSA"), Bad("PSA")},
     ph  \in {<<>>, Good("PH") @@ Good("PD") @@ Good("PA")},
     bh  \in {Missing("B365H"), Good("B365H"), Bad("B365H")},
     ba  \in {Missing("B365A"), Good("B365A")},
     avg \in {Missing("AvgH") @@ Missing("AvgD") @@ Missing("AvgA"),
              Good("AvgH") @@ Good("AvgD") @@ Good("AvgA")},
     po  \in {Missing("P>2.5"), Good("P>2.5"), Bad("P>2.5")},
     bo  \in {<<>>, Good("B365>2.5") @@ Good("B365<2.5")}}

Rows == IdentityRows \cup PriceRows

\* the merge pipeline's variables while the normalizer is looked at
MergeIdle ==
  /\ feed = {}
  /\ today = 0
  /\ existing = <<>>
  /\ dayFiles = NoFiles
  /\ today_str = 0
  /\ new_matches = <<>>
  /\ output = <<>>
  /\ pc = "idle"

InitNormalize ==
  /\ MergeIdle
  /\ parsed = <<>>
  /\ loaded = <<>>
  /\ fetched = <<>>
  /\ \/ raw \in {<<r>> : r \in RawRecords} /\ row = <<>>
     \/ raw = <<>> /\ row \in {<<r>> : r \in Rows}

\* parse_match on the raw record
Normalize ==
  /\ raw # <<>> /\ parsed = <<>>
  /\ parsed' = <<ParseMatch(raw[1])>>
  /\ UNCHANGED <<feed, today, existing, dayFiles, today_str, new_matches, output, pc,
                 raw, loaded, row, fetched>>

\* load_new_day_data on a day file that holds Companion and the raw record
LoadDayFile ==
  /\ raw # <<>> /\ loaded = <<>>
  /\ loaded' = <<LoadNewDayData([NoFiles EXCEPT ![0] =
                    [present |-> TRUE, matches |-> <<Companion, raw[1]>>]], 0)>>
  /\ UNCHANGED <<feed, today, existing, dayFiles, today_str, new_matches, output, pc,
                 raw, parsed, row, fetched>>

\* transform_to_watchyscore_format on a frame that holds the row
Transform ==
  /\ row # <<>> /\ fetched = <<>>
  /\ fetched' = <<TransformRow(row[1])>>
  /\ UNCHANGED <<feed, today, existing, dayFiles, today_str, new_matches, output, pc,
                 raw, parsed, loaded, row>>

NextNormalize == Normalize \/ LoadDayFile \/ Transform

SpecNormalize == InitNormalize /\ [][NextNormalize]_vars

\* ====================================================== properties: merge
\* The run under inspection: main has written output and nothing was
\* published yet, so existing is still the Window that main read.
Merged == pc = "merged"
Out == output[1]
NoInput == new_matches = <<>> /\ existing = <<>>
Offsets == 0..(WindowDays - 1)

\* dayOffset of the specification: the calendar date of commence_time minus
\* today, -1 when commence_time is empty or holds no date
CalendarDayKnown(ct) ==
  /\ ct.t = "str"
  /\ ct.v # <<>>
  /\ ct.v[1] \in DateTokens
  /\ \A j \in 2..Len(ct.v) : ct.v[j] = "T" => ct.v[2] = "T"
DayOffset(ct, td) == IF CalendarDayKnown(ct) THEN DateValue(ct.v[1]) - td ELSE -1

\* the matches of the previous Window stored under offset d
PrevBucket(d) ==
  IF existing = <<>> THEN <<>>
  ELSE IF d \in DOMAIN existing[1].by_day THEN existing[1].by_day[d].matches ELSE <<>>
PrevHasBuckets == existing # <<>> /\ DOMAIN existing[1].by_day = Offsets
\* the day the previous Window was built for
PrevToday == existing[1].by_day[0].date
RefreshedDays ==
  {d \in Offsets : \E i \in 1..Len(new_matches) :
                     DayOffset(new_matches[i].commence_time, today_str) = d}
InSeq(m, ms) == \E i \in 1..Len(ms) : ms[i] = m
InSomeBucket(m) == \E d \in DOMAIN Out.by_day : InSeq(m, Out.by_day[d].matches)

\* the three key fields, compared without regard to case
SameFields(x, y) ==
  /\ Lower(Format(x.home_team)) = Lower(Format(y.home_team))
  /\ Lower(Format(x.away_team)) = Lower(Format(y.away_team))
  /\ Lower(Format(x.commence_time)) = Lower(Format(y.commence_time))
\* the three key fields joined with "|", compared without regard to case
JoinedKey(x) ==
  Lower(Format(x.home_team)) \o <<"|">> \o Lower(Format(x.away_team)) \o <<"|">>
    \o Lower(Format(x.commence_time))
SameJoinedKey(x, y) == JoinedKey(x) = JoinedKey(y)

\* the new-batch matches of offset d, the first of each group of Same ones
FirstOfOffset(d, Same(_, _)) ==
  LET first(i) == /\ DayOffset(new_matches[i].commence_time, today_str) = d
                  /\ \A j \in 1..(i - 1) : ~Same(new_matches[j], new_matches[i])
      F[i \in 0..Len(new_matches)] ==
        IF i = 0 THEN <<>>
        ELSE IF first(i) THEN Append(F[i - 1], new_matches[i]) ELSE F[i - 1]
  IN  F[Len(new_matches)]

\* C10: every Window built from non-empty input has exactly the buckets
\* 0..6; bucket i carries date today + i and the count of its matches; every
\* match of bucket i has day offset i; the flat list holds bucket matches only.
C10_BucketInvariant ==
  (Merged /\ ~NoInput) =>
    /\ DOMAIN Out.by_day = Offsets
    /\ \A i \in Offsets :
         /\ Out.by_day[i].date = today_str + i
         /\ Out.by_day[i].match_count = Len(Out.by_day[i].matches)
         /\ \A j \in 1..Len(Out.by_day[i].matches) :
              DayOffset(Out.by_day[i].matches[j].commence_time, today_str) = i
    /\ \A j \in 1..Len(Out.matches) :
         /\ InSomeBucket(Out.matches[j])
         /\ DayOffset(Out.matches[j].commence_time, today_str) \in Offsets
    /\ Out.meta.total_matches = Len(Out.matches)

\* a run that kept a new match and a stored match, and left out a new match
\* without a date and a stored match that moved out of the window
C10_Witness ==
  /\ Merged /\ PrevHasBuckets
  /\ \E i \in 1..Len(new_matches) :
       new_matches[i].commence_time.v = <<>> /\ ~InSomeBucket(new_matches[i])
  /\ \E d \in Offsets : Out.by_day[d].matches # <<>>
  /\ \E d \in Offsets : \E j \in 1..Len(PrevBucket(d)) :
       /\ DayOffset(PrevBucket(d)[j].commence_time, today_str) < 0
       /\ ~InSeq(PrevBucket(d)[j], Out.matches)

\* C5: with an empty new batch and no previous Window the output has all
\* seven buckets, each empty, total_matches 0 and meta.error set.
C5_NoDataWindow ==
  (Merged /\ NoInput) =>
    /\ DOMAIN Out.by_day = Offsets
    /\ \A i \in Offsets : Out.by_day[i].matches = <<>>
    /\ Out.meta.total_matches = 0
    /\ "error" \in DOMAIN Out.meta

\* C4: merging the same batch into the Window just produced, for the same
\* today, gives that Window again.
C4_Idempotent ==
  Merged => Merge(new_matches, output, today_str) = Out

\* C2: with an empty new batch, a match stored in bucket i for today = D is
\* in bucket i - k at today = D + k, and in no bucket and not in the flat
\* list when i - k < 0.
C2_DayDrift ==
  (Merged /\ new_matches = <<>> /\ PrevHasBuckets /\ today_str >= PrevToday) =>
    LET k == today_str - PrevToday
    IN  \A i \in Offsets : \A j \in 1..Len(PrevBucket(i)) :
          LET m == PrevBucket(i)[j]
          IN  IF i - k >= 0
              THEN /\ InSeq(m, Out.by_day[i - k].matches)
                   /\ \A d \in Offsets \ {i - k} : ~InSeq(m, Out.by_day[d].matches)
              ELSE ~InSomeBucket(m) /\ ~InSeq(m, Out.matches)

\* bucket 2 of the previous Window has become bucket 1 one day later
C2_Witness ==
  /\ Merged /\ new_matches = <<>> /\ PrevHasBuckets
  /\ today_str = PrevToday + 1
  /\ PrevBucket(2) # <<>>
  /\ Out.by_day[1].matches = PrevBucket(2)

\* C1: (a) the bucket of every refreshed offset holds exactly the new-batch
\* matches of that offset, first of each duplicate group, and nothing of the
\* previous Window; (b) with today unchanged, the bucket of every other
\* offset is the previous Window's bucket, same matches in the same order.
C1_SelectiveReplacement ==
  (Merged /\ ~NoInput) =>
    /\ \A d \in RefreshedDays :
         Out.by_day[d].matches = FirstOfOffset(d, SameJoinedKey)
    /\ (PrevHasBuckets /\ PrevToday = today_str) =>
         \A d \in Offsets \ RefreshedDays : Out.by_day[d].matches = PrevBucket(d)

\* today unchanged: a refreshed bucket whose stored matches were replaced by
\* other ones next to a carried bucket that is not empty
C1_Witness ==
  /\ Merged /\ PrevHasBuckets /\ PrevToday = today_str
  /\ \E d \in RefreshedDays :
       /\ PrevBucket(d) # <<>>
       /\ \A j \in 1..Len(PrevBucket(d)) : ~InSeq(PrevBucket(d)[j], Out.by_day[d].matches)
       /\ Out.by_day[d].matches # <<>>
  /\ \E d \in Offsets \ RefreshedDays :
       PrevBucket(d) # <<>> /\ Out.by_day[d].matches = PrevBucket(d)

\* the stored matches that fall on offset d today
PrevNowOn(d) ==
  {m \in UNION {{PrevBucket(i)[j] : j \in 1..Len(PrevBucket(i))} : i \in Offsets} :
     DayOffset(m.commence_time, today_str) = d}
\* day d was scraped (data/day<d>.json exists) and the batch holds no match
\* of offset d
ScrapedEmpty(d) == dayFiles[d].present /\ d \notin RefreshedDays

Admissible ==
  LET old == [d \in Offsets |-> PrevBucket(d)]
      A[k \in 0..WindowDays] ==
        IF k = 0 THEN <<>> ELSE A[k - 1] \o old[k - 1]
      inWin(m) == DayOffset(m.commence_time, today_str) \in Offsets
      carried(m) == inWin(m) /\ DayOffset(m.commence_time, today_str) \notin RefreshedDays
  IN  SelectSeq(new_matches, inWin) \o SelectSeq(A[WindowDays], carried)

\* no two matches of the output are Same; every candidate that no earlier
\* candidate is Same as is in the output; and the output holds nothing else
DedupHolds(Same(_, _)) ==
  LET first(i) == \A j \in 1..(i - 1) : ~Same(Admissible[j], Admissible[i])
  IN  /\ \A i, j \in 1..Len(Out.matches) :
           i # j => ~Same(Out.matches[i], Out.matches[j])
      /\ \A i \in 1..Len(Admissible) : first(i) => InSomeBucket(Admissible[i])
      /\ \A d \in Offsets : \A k \in 1..Len(Out.by_day[d].matches) :
           \E i \in 1..Len(Admissible) :
             first(i) /\ Admissible[i] = Out.by_day[d].matches[k]
      /\ \A k \in 1..Len(Out.matches) : InSomeBucket(Out.matches[k])

\* C3 as claimed: matches count as the same when home_team, away_team and
\* commence_time agree without regard to case; the first met is kept and two
\* that differ in one of the three fields are both kept.
C3_DedupByFields == (Merged /\ ~NoInput) => DedupHolds(SameFields)

\* C3 as the code has it: matches count as the same when the lower-cased
\* "home|away|commence_time" strings agree, which two different pairs of team
\* names do when the names hold the separator.
C3_DedupByJoinedKey == (Merged /\ ~NoInput) => DedupHolds(SameJoinedKey)

\* a batch of two matches that differ only in case, one of them kept, next
\* to a kept match with another key
C3_Witness ==
  /\ Merged
  /\ \E i, j \in 1..Len(new_matches) :
       /\ i < j
       /\ new_matches[i] # new_matches[j]
       /\ SameFields(new_matches[i], new_matches[j])
       /\ InSomeBucket(new_matches[i])
       /\ ~InSomeBucket(new_matches[j])
  /\ Len(Out.matches) >= 2

\* ================================================= properties: normalizer
\* a value that is a non-empty string
NonEmptyString(x) == x.t = "str" /\ x.v # <<>>
\* key k of the raw record yields a team name: a non-empty string, or a
\* record with a name field
YieldsName(rec, k) ==
  Has(rec, k) /\ (NonEmptyString(rec[k]) \/ (rec[k].t = "dict" /\ rec[k].v # <<>>))
NoTeamName(rec, keys) == Has(rec, "t") \/ \A k \in keys : ~YieldsName(rec, k)

\* C8: a raw record without a home team name or without an away team name
\* under the probed keys is discarded, and every emitted Match has two
\* non-empty string team names.
C8_DiscardOnMissingTeam ==
  /\ parsed # <<>> =>
       /\ (\/ NoTeamName(raw[1], {"home_team", "home", "homeTeam"})
           \/ NoTeamName(raw[1], {"away_team", "away", "awayTeam"}))
            => parsed[1].t = "none"
       /\ parsed[1].t = "match" =>
            /\ NonEmptyString(parsed[1].m[1].home_team)
            /\ NonEmptyString(parsed[1].m[1].away_team)
  /\ fetched # <<>> =>
       /\ (row[1].HomeTeam.t = "nan" \/ row[1].AwayTeam.t = "nan")
            => fetched[1].matches = <<>>
       /\ \A i \in 1..Len(fetched[1].matches) :
            /\ NonEmptyString(fetched[1].matches[i].home_team)
            /\ NonEmptyString(fetched[1].matches[i].away_team)

\* the row with every price cell that holds no number read as missing
PriceColumns ==
  {"PSH", "PSD", "PSA", "PH", "PD", "PA", "B365H", "B365D", "B365A",
   "AvgH", "AvgD", "AvgA", "P>2.5", "P<2.5", "B365>2.5", "B365<2.5",
   "Avg>2.5", "Avg<2.5"}
Malformed(cell) == cell.t = "str" /\ ~cell.numeric
HasMalformedPrice(r) == \E c \in PriceColumns \cap DOMAIN r : Malformed(r[c])
WithoutMalformed(r) ==
  [c \in DOMAIN r |-> IF c \in PriceColumns /\ Malformed(r[c]) THEN NaN ELSE r[c]]

\* C7: a malformed price is treated as missing and nothing else is lost: the
\* row gives the matches it would give with the malformed cells missing, and
\* a raw record with a malformed market entry does not drop the other record
\* of its day file.
C7_MalformedFieldIsolated ==
  /\ fetched # <<>> =>
       fetched[1].matches = TransformRow(WithoutMalformed(row[1])).matches
  /\ loaded # <<>> =>
       \E i \in 1..Len(loaded[1]) : loaded[1][i].home_team = Companion.home_team

\* the candidates of transform_to_watchyscore_format in priority order
Candidates ==
  <<<<"PSH", "PSD", "PSA">>, <<"PH", "PD", "PA">>, <<"B365H", "B365D", "B365A">>,
    <<"AvgH", "AvgD", "AvgA">>>>
Present(r, col) == col \in DOMAIN r /\ r[col].t # "nan"
YieldsValue(r, c) == \E j \in 1..3 : Present(r, c[j])
YieldsHome(r, c) == Present(r, c[1])
\* the first candidate that Usable accepts, 0 when there is none
FirstCandidate(r, Usable(_, _)) ==
  IF \E k \in 1..Len(Candidates) : Usable(r, Candidates[k])
  THEN CHOOSE k \in 1..Len(Candidates) :
         /\ Usable(r, Candidates[k])
         /\ \A j \in 1..(k - 1) : ~Usable(r, Candidates[j])
  ELSE 0
\* the accepted h2h odds are those of candidate k, rounded to two decimals
SuppliedBy(h2h, r, k) ==
  /\ k # 0
  /\ \A j \in 1..3 : Present(r, Candidates[k][j])
  /\ h2h.home = Round2(r[Candidates[k][1]].n)
  /\ h2h.draw = Round2(r[Candidates[k][2]].n)
  /\ h2h.away = Round2(r[Candidates[k][3]].n)

\* the h2h bodies a raw record offers under 'markets' and 'odds'
MarketBodies(rec) ==
  (IF Has(rec, "odds") /\ rec.odds.t = "dict" /\ Has(rec.odds.d, "h2h")
   THEN {rec.odds.d.h2h} ELSE {})
  \cup (IF Has(rec, "markets") /\ rec.markets.t = "dict" /\ Has(rec.markets.d, "h2h")
        THEN {rec.markets.d.h2h} ELSE {})
  \cup (IF Has(rec, "markets") /\ rec.markets.t = "list"
        THEN {rec.markets.entries[i].odds : i \in
                {j \in 1..Len(rec.markets.entries) :
                   /\ rec.markets.entries[j].t = "dict"
                   /\ \/ Lower(rec.markets.entries[j].name) = <<"1", "x", "2">>
                      \/ Lower(rec.markets.entries[j].type) = <<"h", "2", "h">>}}
        ELSE {})
DirectKeys == {"home_odds", "draw_odds", "away_odds"}
NumeralKeys == {"1", "X", "2"}
DirectBody(rec) == [home |-> rec.home_odds, draw |-> rec.draw_odds, away |-> rec.away_odds]
NumeralBody(rec) == [home |-> rec["1"], draw |-> rec["X"], away |-> rec["2"]]
H2HOf(m) == IF Has(m.markets, "h2h") THEN m.markets.h2h ELSE EmptyDict

LeftByMarkets(rec) ==
  LET oddsBody == IF Has(rec, "odds") /\ rec.odds.t = "dict" /\ Has(rec.odds.d, "h2h")
                  THEN rec.odds.d.h2h ELSE EmptyDict
      es == IF Has(rec, "markets") /\ rec.markets.t = "list"
            THEN rec.markets.entries ELSE <<>>
      hits == {j \in 1..Len(es) : \/ Lower(es[j].name) = <<"1", "x", "2">>
                                  \/ Lower(es[j].type) = <<"h", "2", "h">>}
  IN  IF Has(rec, "markets") /\ rec.markets.t = "dict"
      THEN (IF Has(rec.markets.d, "h2h") THEN rec.markets.d.h2h ELSE EmptyDict)
      ELSE IF hits # {} THEN es[CHOOSE j \in hits : \A k \in hits : k <= j].odds
      ELSE oddsBody

====
